---- MODULE Spec2Model ----
(***************************************************************************)
(* Model of sentrygin: the gin middleware that reports panics to Sentry.   *)
(* New builds a handler from Options; handle runs once per request, each   *)
(* request on its own goroutine.  The Sentry hub, the span and the next    *)
(* gin handler are the environment: the model records what handle asks of  *)
(* them and in which order.                                                *)
(***************************************************************************)
EXTENDS Integers, Sequences, FiniteSets, TLC

\* ---- bounds ------------------------------------------------------------
NumReqs == 2
MaxTimeout == 1

\* ---- program constants -------------------------------------------------
\* 2 * time.Second; one time unit of the model is one second
DefaultTimeout == 2
\* a nil *sentry.Hub
NilHub == 0
\* sentry.CurrentHub(), the process-wide hub
DefaultHub == 1

Reqs == 1..NumReqs
\* recover() returns nil when the goroutine is not panicking
NilPanic == <<"nil", 0>>
\* the value the next handler of request r panics with, when it panics
PanicOf(r) == <<"boom", r>>
\* a nil *sentry.EventID
NilEvent == "nil"
EventIDs == {NilEvent, "event"}

\* the hub a middleware in front of this one may have put on the request's context
UpstreamHub(r) == DefaultHub + r
\* the hub sentry.CurrentHub().Clone() makes for request r: a new hub, no other's
CloneOf(r) == DefaultHub + NumReqs + r

\* ---- contexts and requests ---------------------------------------------
\* the value stored under sentry.RequestContextKey: a request's identity
NoRequest == <<0, 0>>
ReqRef(req) == <<req.id, req.gen>>

\* a context.Context: the hub, the span and the request it carries
Context(hb, sp, rq) == [hub |-> hb, span |-> sp, request |-> rq]
Background == Context(NilHub, FALSE, NoRequest)

\* sentry.GetHubFromContext, line 59
GetHubFromContext(c) == c.hub
\* variant: the derived context is dropped, ctx stays without the hub
SetHubOnContextDropped(c, hb) == c
\* sentry.SetHubOnContext, line 62
SetHubOnContext(c, hb) == [c EXCEPT !.hub = hb]
\* context.WithValue(ctx, sentry.RequestContextKey, r), line 84
WithRequestValue(c, req) == [c EXCEPT !.request = ReqRef(req)]
\* http.Request.WithContext: a shallow copy of the request with another context
WithContext(req, c) == [id |-> req.id, gen |-> req.gen + 1, ctx |-> c]
NoRequestObj == [id |-> 0, gen |-> 0, ctx |-> Background]

\* ---- hubs --------------------------------------------------------------
\* what a hub has been asked to do: the request on its scope, the events
\* captured on it, the number of Flush calls
NewHubState == [scopeRequest |-> NoRequest, events |-> <<>>, flushes |-> 0]
Clone(hs) == [scopeRequest |-> hs.scopeRequest, events |-> <<>>, flushes |-> 0]

\* ---- Options and New ---------------------------------------------------
OptionsSet == [Repanic : BOOLEAN, WaitForDelivery : BOOLEAN, Timeout : 0..MaxTimeout]
NilHandler == [repanic |-> FALSE, waitForDelivery |-> FALSE, timeout |-> 0, set |-> FALSE]

\* variant: New without lines 45-47
NewHandlerNoDefault(o) ==
    [repanic |-> o.Repanic, waitForDelivery |-> o.WaitForDelivery,
     timeout |-> o.Timeout, set |-> TRUE]

\* New, lines 45-53
NewHandler(o) ==
    LET t == IF o.Timeout = 0 THEN DefaultTimeout ELSE o.Timeout
    IN  [repanic |-> o.Repanic, waitForDelivery |-> o.WaitForDelivery,
         timeout |-> t, set |-> TRUE]

\* variant: the process-wide hub is used as it is, without Clone()
ResolveHubShared(found, fresh) == IF found = NilHub THEN DefaultHub ELSE found
\* handle, lines 59-63: the hub of the request is the one found on its context,
\* or else a fresh clone of the process-wide hub
ResolveHub(found, fresh) == IF found = NilHub THEN fresh ELSE found

\* variant: the report is made whatever recover() returned
RecoveredAlways(e) == TRUE
\* recoverWithSentry, line 82: err != nil
Recovered(e) == e # NilPanic

\* variant: deferred calls run in the order of their registration
PushDeferLast(stack, d) == Append(stack, d)
\* handle, lines 71 and 76: deferred calls run last registered first, so a new
\* one goes on top
PushDefer(stack, d) == <<d>> \o stack

\* variant: the event id is not looked at
ShouldFlushAnyEvent(hd, eid) == hd.waitForDelivery
\* recoverWithSentry, line 87
ShouldFlush(hd, eid) == eid # NilEvent /\ hd.waitForDelivery

\* variant: hub.Flush is given no time to wait
FlushTimeoutNone(hd) == 0
\* recoverWithSentry, line 88: the timeout given to hub.Flush
FlushTimeout(hd) == hd.timeout

\* variant: the panic is raised again with a value wrapped around the recovered one
RepanickedWrapped(hd, e) == IF hd.repanic THEN <<"wrapped", e[2]>> ELSE NilPanic
\* variant: the panic is raised again whatever Repanic says
RepanickedAlways(hd, e) == e
\* recoverWithSentry, lines 90-92: the value the goroutine panics with after the
\* report, nil when it does not
Repanicked(hd, e) == IF hd.repanic THEN e ELSE NilPanic

\* variant: the report is made with the request's context alone
ReportWithoutRequest(req, e) == [val |-> e, ctx |-> req.ctx]
\* recoverWithSentry, lines 83-86: the event handed to hub.RecoverWithContext
Report(req, e) == [val |-> e, ctx |-> WithRequestValue(req.ctx, req)]

VARIABLES
    opts,       \* the Options given to New
    h,          \* the handler New built
    pc,         \* pc[r]: where request r's goroutine is in handle
    incoming,   \* incoming[r]: c.Request as it entered handle
    cRequest,   \* cRequest[r]: c.Request
    ctx,        \* ctx[r]: handle's local ctx
    hub,        \* hub[r]: handle's local hub
    span,       \* span[r]: the span of the request
    defers,     \* defers[r]: handle's deferred calls, the next to run first
    panicking,  \* panicking[r]: the value the goroutine is panicking with
    err,        \* err[r]: what recover() returned in recoverWithSentry
    eventID,    \* eventID[r]: what RecoverWithContext returned
    calls,      \* calls[r]: the calls handle made, in order
    seenHub,    \* seenHub[r]: the hub the next handler found on c.Request's context
    thrown,     \* thrown[r]: the value c.Next() panicked with, nil when it returned
    wait,       \* wait[r]: the hub.Flush call of the request
    delivered,  \* delivered[r]: the transport has delivered r's event
    hubs        \* hubs[id]: the state of each hub that exists

vars == <<opts, h, pc, incoming, cRequest, ctx, hub, span, defers, panicking, err,
          eventID, calls, seenHub, thrown, wait, delivered, hubs>>

reqVars == <<incoming, cRequest, ctx, hub, span, defers, panicking, err, eventID,
             calls, seenHub, thrown, wait, delivered>>

NoSpan == [started |-> 0, finished |-> 0, ctx |-> Background]
\* a Flush call: the timeout it was given, the seconds it has been waiting
\* while it runs, and how it ended
NoWait == [called |-> FALSE, timeout |-> 0, elapsed |-> 0, ended |-> "none"]
Deferred(fn, hb, req) == [fn |-> fn, hub |-> hb, r |-> req]

Init ==
    /\ opts \in OptionsSet
    /\ h = NilHandler
    /\ pc = [r \in Reqs |-> "idle"]
    /\ incoming = [r \in Reqs |-> NoRequestObj]
    /\ cRequest = [r \in Reqs |-> NoRequestObj]
    /\ ctx = [r \in Reqs |-> Background]
    /\ hub = [r \in Reqs |-> NilHub]
    /\ span = [r \in Reqs |-> NoSpan]
    /\ defers = [r \in Reqs |-> <<>>]
    /\ panicking = [r \in Reqs |-> NilPanic]
    /\ err = [r \in Reqs |-> NilPanic]
    /\ eventID = [r \in Reqs |-> NilEvent]
    /\ calls = [r \in Reqs |-> <<>>]
    /\ seenHub = [r \in Reqs |-> NilHub]
    /\ thrown = [r \in Reqs |-> NilPanic]
    /\ wait = [r \in Reqs |-> NoWait]
    /\ delivered = [r \in Reqs |-> FALSE]
    /\ hubs = (DefaultHub :> NewHubState)

\* New(opts)
New ==
    /\ ~h.set
    /\ h' = NewHandler(opts)
    /\ UNCHANGED <<opts, pc, reqVars, hubs>>

\* handle, lines 57-63: the request arrives, with or without a hub on its
\* context, and handle resolves the hub
Enter(r) ==
    /\ h.set
    /\ pc[r] = "idle"
    /\ \E inHub \in {NilHub, UpstreamHub(r)} :
        LET req  == [id |-> r, gen |-> 0, ctx |-> Context(inHub, FALSE, NoRequest)]
            ctx0 == req.ctx
            hub0 == GetHubFromContext(ctx0)
            base == IF inHub = NilHub THEN hubs ELSE hubs @@ (inHub :> NewHubState)
        IN  /\ incoming' = [incoming EXCEPT ![r] = req]
            /\ cRequest' = [cRequest EXCEPT ![r] = req]
            /\ hub' = [hub EXCEPT ![r] = ResolveHub(hub0, CloneOf(r))]
            /\ IF hub0 = NilHub
                 THEN /\ hubs' = base @@ (CloneOf(r) :> Clone(hubs[DefaultHub]))
                      /\ ctx' = [ctx EXCEPT ![r] =
                                    SetHubOnContext(ctx0, ResolveHub(hub0, CloneOf(r)))]
                      /\ calls' = [calls EXCEPT ![r] = Append(@, "Clone")]
                 ELSE /\ hubs' = base
                      /\ ctx' = [ctx EXCEPT ![r] = ctx0]
                      /\ calls' = calls
    /\ pc' = [pc EXCEPT ![r] = "span"]
    /\ UNCHANGED <<opts, h, span, defers, panicking, err, eventID, seenHub, thrown,
                   wait, delivered>>

\* handle, lines 65-76: sentry.StartSpan and defer span.Finish(); the request
\* gets the span's context, the hub's scope gets the request, and
\* recoverWithSentry is deferred with its arguments evaluated now
Setup(r) ==
    /\ pc[r] = "span"
    /\ LET sp  == [started |-> span[r].started + 1, finished |-> span[r].finished,
                   ctx |-> [ctx[r] EXCEPT !.span = TRUE]]
           d1  == PushDefer(defers[r], Deferred("Finish", NilHub, NoRequestObj))
           req == WithContext(cRequest[r], sp.ctx)
       IN  /\ span' = [span EXCEPT ![r] = sp]
           /\ cRequest' = [cRequest EXCEPT ![r] = req]
           /\ hubs' = [hubs EXCEPT ![hub[r]].scopeRequest = ReqRef(req)]
           /\ defers' = [defers EXCEPT ![r] = PushDefer(d1, Deferred("Recover", hub[r], req))]
    /\ calls' = [calls EXCEPT ![r] = @ \o <<"StartSpan", "SetRequest">>]
    /\ pc' = [pc EXCEPT ![r] = "next"]
    /\ UNCHANGED <<opts, h, incoming, ctx, hub, panicking, err, eventID,
                   seenHub, thrown, wait, delivered>>

\* handle, line 78: c.Next() runs the rest of the chain, which returns or panics
CallNext(r) ==
    /\ pc[r] = "next"
    /\ seenHub' = [seenHub EXCEPT ![r] = GetHubFromContext(cRequest[r].ctx)]
    /\ \E v \in {NilPanic, PanicOf(r)} :
        /\ panicking' = [panicking EXCEPT ![r] = v]
        /\ thrown' = [thrown EXCEPT ![r] = v]
    /\ calls' = [calls EXCEPT ![r] = Append(@, "Next")]
    /\ pc' = [pc EXCEPT ![r] = "unwind"]
    /\ UNCHANGED <<opts, h, incoming, cRequest, ctx, hub, span, defers, err, eventID,
                   wait, delivered, hubs>>

\* where the goroutine is after a deferred call: the next deferred call, or,
\* after the last one, back in handle's caller, by return or by panic
Unwound(rest, pan) ==
    IF rest # <<>> THEN "unwind" ELSE IF pan # NilPanic THEN "panicked" ELSE "returned"

\* recoverWithSentry, lines 90-93, and the end of the deferred call: panic(err)
\* or return
RepanicOrReturn(r, done) ==
    LET pan == Repanicked(h, err'[r])
    IN  /\ panicking' = [panicking EXCEPT ![r] = pan]
        /\ calls' = [calls EXCEPT ![r] =
                        IF pan # NilPanic THEN Append(@ \o done, "Repanic") ELSE @ \o done]
        /\ defers' = [defers EXCEPT ![r] = Tail(@)]
        /\ pc' = [pc EXCEPT ![r] = Unwound(Tail(defers[r]), pan)]

\* the deferred recoverWithSentry, lines 82-93: recover() and, after a panic,
\* the report; then the call of hub.Flush, or the end of recoverWithSentry
Recover(r) ==
    /\ pc[r] = "unwind"
    /\ defers[r] # <<>>
    /\ Head(defers[r]).fn = "Recover"
    /\ LET d == Head(defers[r])
           e == panicking[r]
       IN  /\ err' = [err EXCEPT ![r] = e]
           /\ IF ~Recovered(e)
                THEN /\ panicking' = [panicking EXCEPT ![r] = NilPanic]
                     /\ defers' = [defers EXCEPT ![r] = Tail(@)]
                     /\ pc' = [pc EXCEPT ![r] = Unwound(Tail(defers[r]), NilPanic)]
                     /\ UNCHANGED <<eventID, calls, wait, hubs>>
                ELSE \E eid \in EventIDs :
                     /\ eventID' = [eventID EXCEPT ![r] = eid]
                     /\ IF ShouldFlush(h, eid)
                          THEN /\ hubs' = [hubs EXCEPT
                                    ![d.hub].events = Append(@, Report(d.r, e)),
                                    ![d.hub].flushes = @ + 1]
                               /\ calls' = [calls EXCEPT ![r] = @ \o <<"Recover", "Flush">>]
                               /\ wait' = [wait EXCEPT ![r] =
                                    [called |-> TRUE, timeout |-> FlushTimeout(h),
                                     elapsed |-> 0, ended |-> "none"]]
                               /\ panicking' = [panicking EXCEPT ![r] = NilPanic]
                               /\ pc' = [pc EXCEPT ![r] = "flush"]
                               /\ defers' = defers
                          ELSE /\ hubs' = [hubs EXCEPT
                                    ![d.hub].events = Append(@, Report(d.r, e))]
                               /\ wait' = wait
                               /\ RepanicOrReturn(r, <<"Recover">>)
    /\ UNCHANGED <<opts, h, incoming, cRequest, ctx, hub, span, seenHub, thrown, delivered>>

\* hub.Flush blocks: a second passes while the event is still undelivered
Tick(r) ==
    /\ pc[r] = "flush"
    /\ wait[r].elapsed < wait[r].timeout
    /\ wait' = [wait EXCEPT ![r].elapsed = @ + 1]
    /\ UNCHANGED <<opts, h, pc, incoming, cRequest, ctx, hub, span, defers, panicking,
                   err, eventID, calls, seenHub, thrown, delivered, hubs>>

\* hub.Flush returns because the transport has delivered the event, and
\* recoverWithSentry runs to its end
FlushDelivered(r) ==
    /\ pc[r] = "flush"
    /\ delivered' = [delivered EXCEPT ![r] = TRUE]
    /\ wait' = [wait EXCEPT ![r].ended = "delivered", ![r].elapsed = 0]
    /\ err' = err
    /\ RepanicOrReturn(r, <<>>)
    /\ UNCHANGED <<opts, h, incoming, cRequest, ctx, hub, span, eventID,
                   seenHub, thrown, hubs>>

\* hub.Flush returns because the timeout has elapsed, and recoverWithSentry
\* runs to its end; the delivery goes on
FlushTimedOut(r) ==
    /\ pc[r] = "flush"
    /\ wait[r].elapsed >= wait[r].timeout
    /\ wait' = [wait EXCEPT ![r].ended = "timeout", ![r].elapsed = 0]
    /\ err' = err
    /\ RepanicOrReturn(r, <<>>)
    /\ UNCHANGED <<opts, h, incoming, cRequest, ctx, hub, span, eventID,
                   seenHub, thrown, delivered, hubs>>

\* the transport delivers the event after Flush has given up waiting for it
DeliverLate(r) ==
    /\ wait[r].ended = "timeout"
    /\ ~delivered[r]
    /\ delivered' = [delivered EXCEPT ![r] = TRUE]
    /\ UNCHANGED <<opts, h, pc, incoming, cRequest, ctx, hub, span, defers, panicking,
                   err, eventID, calls, seenHub, thrown, wait, hubs>>

\* the deferred span.Finish()
Finish(r) ==
    /\ pc[r] = "unwind"
    /\ defers[r] # <<>>
    /\ Head(defers[r]).fn = "Finish"
    /\ span' = [span EXCEPT ![r].finished = @ + 1]
    /\ calls' = [calls EXCEPT ![r] = Append(@, "Finish")]
    /\ defers' = [defers EXCEPT ![r] = Tail(@)]
    /\ pc' = [pc EXCEPT ![r] = Unwound(Tail(defers[r]), panicking[r])]
    /\ UNCHANGED <<opts, h, incoming, cRequest, ctx, hub, panicking, err, eventID,
                   seenHub, thrown, wait, delivered, hubs>>

Next ==
    \/ New
    \/ \E r \in Reqs : Enter(r)
    \/ \E r \in Reqs : Setup(r)
    \/ \E r \in Reqs : CallNext(r)
    \/ \E r \in Reqs : Recover(r)
    \/ \E r \in Reqs : Tick(r)
    \/ \E r \in Reqs : FlushDelivered(r)
    \/ \E r \in Reqs : FlushTimedOut(r)
    \/ \E r \in Reqs : DeliverLate(r)
    \/ \E r \in Reqs : Finish(r)

Spec == Init /\ [][Next]_vars

\* the goroutine of a request goes on running: time passes while it waits in
\* Flush, Flush's timer fires, and the deferred calls run to the last
Step(r) == Recover(r) \/ Tick(r) \/ FlushTimedOut(r) \/ Finish(r)
FairSpec == Spec /\ \A r \in Reqs : WF_vars(Step(r))

\* ---- the properties ------------------------------------------------------
Done == {"returned", "panicked"}
\* the next handler of request r panicked
Panicked(r) == thrown[r] # NilPanic
\* how often, and where first, handle made the call named x
Count(s, x) == Cardinality({i \in DOMAIN s : s[i] = x})
Pos(s, x) == IF \E i \in DOMAIN s : s[i] = x
               THEN CHOOSE i \in DOMAIN s : s[i] = x /\ \A j \in 1..(i - 1) : s[j] # x
               ELSE 0
Called(r, x) == Pos(calls[r], x) > 0
Before(r, x, y) == Called(r, x) /\ Called(r, y) /\ Pos(calls[r], x) < Pos(calls[r], y)
\* the timeout the Options ask for: Timeout, or 2 seconds when it is zero
ConfiguredTimeout == IF opts.Timeout = 0 THEN DefaultTimeout ELSE opts.Timeout
\* the request with itself attached to its context under the request key
Attached(req) == [req.ctx EXCEPT !.request = ReqRef(req)]

\* C1: when the next handler of a request panics with v, handle makes exactly
\* one report, on the request's hub, with v and a context that has the request
\* attached, and the span is finished exactly once before handle gives control
\* back, by return or by panic.
C1_OneReportSpanFinished ==
    \A r \in Reqs : Panicked(r) =>
        /\ Count(calls[r], "Recover") <= 1
        /\ Len(hubs[hub[r]].events) <= 1
        /\ span[r].finished <= 1
        /\ pc[r] \in Done =>
            /\ Count(calls[r], "Recover") = 1
            /\ hub[r] = seenHub[r]
            /\ hubs[hub[r]].events =
                    <<[val |-> thrown[r], ctx |-> Attached(cRequest[r])]>>
            /\ cRequest[r].id = r
            /\ span[r].started = 1
            /\ span[r].finished = 1
            /\ Count(calls[r], "Finish") = 1

C1_Witness ==
    \E r \in Reqs : pc[r] = "panicked" /\ Panicked(r) /\ span[r].finished = 1

\* C2: with Repanic set, a panic of the next handler with v leaves handle as a
\* panic with the same v, raised only after the report and, when Flush is
\* called, after Flush has returned.
C2_RepanicSameValue ==
    \A r \in Reqs : (Panicked(r) /\ opts.Repanic) =>
        /\ pc[r] # "returned"
        /\ pc[r] = "panicked" => (panicking[r] = thrown[r] /\ Called(r, "Repanic"))
        /\ Called(r, "Repanic") =>
            /\ Before(r, "Recover", "Repanic")
            /\ panicking[r] = thrown[r]
            /\ (eventID[r] # NilEvent /\ opts.WaitForDelivery) =>
                    (Before(r, "Flush", "Repanic") /\ wait[r].ended # "none")

C2_Witness ==
    \E r \in Reqs : pc[r] = "panicked" /\ opts.Repanic /\ wait[r].ended # "none"

\* C3: with Repanic unset, a panic of the next handler is absorbed: handle
\* returns and no panic leaves it, whatever WaitForDelivery, Timeout and the
\* event id are.
C3_PanicAbsorbed ==
    \A r \in Reqs : (Panicked(r) /\ ~opts.Repanic) =>
        /\ pc[r] # "panicked"
        /\ ~Called(r, "Repanic")
        /\ Called(r, "Recover") => panicking[r] = NilPanic

C3_Witness ==
    \E r \in Reqs : pc[r] = "returned" /\ Panicked(r) /\ ~opts.Repanic
                    /\ eventID[r] = NilEvent /\ opts.WaitForDelivery

\* C4: after a panic, hub.Flush is called exactly when the report returned an
\* event id and WaitForDelivery is set; then it is called once, with the
\* configured timeout, after the report and before the panic is raised again
\* or handle returns.  Otherwise it is not called and handle never waits.
C4_FlushIffEventAndWait ==
    \A r \in Reqs :
        /\ Count(calls[r], "Flush") <= 1
        /\ Called(r, "Flush") <=> wait[r].called
        /\ ~Called(r, "Recover") => ~Called(r, "Flush")
        /\ Called(r, "Recover") =>
            /\ Called(r, "Flush") <=> (eventID[r] # NilEvent /\ opts.WaitForDelivery)
            /\ hubs[hub[r]].flushes = Count(calls[r], "Flush")
        /\ Called(r, "Flush") =>
            /\ Before(r, "Recover", "Flush")
            /\ wait[r].timeout = ConfiguredTimeout
            /\ Called(r, "Repanic") => Before(r, "Flush", "Repanic")
            /\ pc[r] \in Done => wait[r].ended # "none"
        /\ pc[r] = "flush" => (Called(r, "Flush") /\ wait[r].ended = "none")

C4_Witness ==
    \E r1, r2 \in Reqs :
        /\ pc[r1] \in Done /\ Called(r1, "Flush")
        /\ pc[r2] \in Done /\ Panicked(r2) /\ eventID[r2] = NilEvent /\ ~Called(r2, "Flush")

\* C5: when the next handler returns without a panic, one span is started and
\* one is finished, and there is no report and no Flush.
C5_NoPanicNoReport ==
    \A r \in Reqs : (pc[r] \in Done /\ ~Panicked(r)) =>
        /\ pc[r] = "returned"
        /\ span[r].started = 1 /\ Count(calls[r], "StartSpan") = 1
        /\ span[r].finished = 1 /\ Count(calls[r], "Finish") = 1
        /\ ~Called(r, "Recover")
        /\ ~Called(r, "Flush")
        /\ hubs[hub[r]].events = <<>>
        /\ hubs[hub[r]].flushes = 0

C5_Witness ==
    \E r \in Reqs : pc[r] = "returned" /\ ~Panicked(r) /\ span[r].finished = 1

\* C6: a request that comes without a hub gets a clone of the process-wide hub,
\* and the next handler finds that clone on the request's context; a request
\* that comes with a hub keeps it: no clone is made, the next handler finds it
\* and the panic is reported on it.
C6_HubResolved ==
    \A r \in Reqs : pc[r] # "idle" =>
        LET found == GetHubFromContext(incoming[r].ctx)
        IN  /\ found = NilHub =>
                /\ Count(calls[r], "Clone") = 1
                /\ hub[r] = CloneOf(r)
                /\ hub[r] \in DOMAIN hubs
            /\ found # NilHub =>
                /\ ~Called(r, "Clone")
                /\ hub[r] = found
            /\ Called(r, "Next") =>
                /\ seenHub[r] = hub[r]
                /\ seenHub[r] # NilHub
            /\ Called(r, "Recover") =>
                /\ Len(hubs[hub[r]].events) = 1
                /\ hubs[hub[r]].events[1].ctx.hub = hub[r]

C6_Witness ==
    \E r1, r2 \in Reqs :
        /\ Called(r1, "Recover") /\ GetHubFromContext(incoming[r1].ctx) = NilHub
        /\ Called(r2, "Recover") /\ GetHubFromContext(incoming[r2].ctx) = UpstreamHub(r2)

\* C7: when hub.Flush is called, handle does not go on before the event is
\* delivered or the configured timeout has elapsed; the wait never lasts
\* longer than the timeout; it always ends, and the unwind then runs on to the
\* end of handle with the span finished; after a timeout the delivery can
\* still complete.
C7_WaitBounded ==
    \A r \in Reqs :
        /\ pc[r] = "flush" => wait[r].elapsed <= ConfiguredTimeout
        /\ (wait[r].called /\ pc[r] \in Done) => wait[r].ended \in {"delivered", "timeout"}
        /\ wait[r].ended = "delivered" => delivered[r]
        /\ (wait[r].ended = "timeout" /\ ~delivered[r]) => ENABLED DeliverLate(r)

C7_NoEarlyReturn ==
    \A r \in Reqs :
        (pc[r] = "flush" /\ pc'[r] # "flush") =>
            (delivered'[r] \/ wait[r].elapsed >= ConfiguredTimeout)

C7_FlushWait ==
    /\ []C7_WaitBounded
    /\ [][C7_NoEarlyReturn]_vars
    /\ \A r \in Reqs : (pc[r] = "flush") ~> (pc[r] \in Done /\ span[r].finished = 1)

C7_Witness ==
    \E r \in Reqs : pc[r] \in Done /\ wait[r].ended = "timeout" /\ delivered[r]

\* C8: New resolves the options once: the timeout is 2 seconds when
\* Options.Timeout is zero and the given Timeout otherwise, Repanic and
\* WaitForDelivery are copied, and no request changes the handler.
C8_Resolved ==
    h.set =>
        /\ h.timeout = ConfiguredTimeout
        /\ h.repanic = opts.Repanic
        /\ h.waitForDelivery = opts.WaitForDelivery
        /\ \A r \in Reqs : wait[r].called => wait[r].timeout = ConfiguredTimeout

C8_ConfigResolvedOnce ==
    /\ []C8_Resolved
    /\ [][h.set => (h' = h /\ opts' = opts)]_vars

C8_Witness ==
    /\ h.set /\ opts.Timeout = 0
    /\ \E r \in Reqs : pc[r] \in Done /\ wait[r].called /\ wait[r].timeout = DefaultTimeout

\* C9 as stated: after a panic of the next handler the span is finished before
\* the recovery (report, Flush, the decision to panic again) runs.
C9_FinishBeforeRecovery ==
    \A r \in Reqs : (Panicked(r) /\ Called(r, "Recover")) => Before(r, "Finish", "Recover")

\* C9 amended: after a panic of the next handler the recovery runs first, the
\* report, the Flush when it is called and the decision to panic again, and
\* the span is finished after it, before handle gives control back.
C9_RecoveryBeforeFinish ==
    \A r \in Reqs : Panicked(r) =>
        /\ Called(r, "Finish") =>
            /\ Before(r, "Recover", "Finish")
            /\ Called(r, "Flush") => (Before(r, "Flush", "Finish") /\ wait[r].ended # "none")
            /\ opts.Repanic => Before(r, "Repanic", "Finish")
        /\ pc[r] = "flush" => span[r].finished = 0
        /\ pc[r] \in Done => Called(r, "Finish")

C9_Witness ==
    \E r \in Reqs : Panicked(r) /\ Called(r, "Finish") /\ Called(r, "Repanic")
                    /\ Called(r, "Flush")

====
